---- MODULE Spec2Model ----
(***************************************************************************)
(* Model of src/models.py: the five-table fitness schema (User,            *)
(* WorkoutType, Exercise, WorkoutSession, ExerciseLog), the unit-of-work   *)
(* operations the declared schema admits, and the composite operation      *)
(* create_workout_session.                                                 *)
(*                                                                         *)
(* Time is the reading of datetime.utcnow() in whole seconds.  The storage *)
(* engine is a parameter of every function of the source; whether it       *)
(* enforces FOREIGN KEY clauses is a property of that engine (fkEnforced). *)
(***************************************************************************)
EXTENDS Integers, Sequences, FiniteSets, TLC

\* ---------------------------------------------------------------- bounds
MaxClock == 80
TickSeconds == 40
MaxCalls == 1
MaxRows == 2
MaxOps == 3

\* ------------------------------------------------------ program constants
QueryLimit == 3
SetsPerExercise == 3
LastSet == 3
FullReps == 10
LastSetReps == 8
HeavyWeight == 50
LightWeight == 25
RestTime == 60
SecondsPerMinute == 60

\* A populated store holds up to one exercise more than the query returns.
MaxExercises == QueryLimit + 1

NULL == <<>>
Some(v) == <<v>>
Val(o) == o[1]

NoMuscle == "None"
HeavyGroups == {"Chest", "Back", "Legs"}

\* clock        the reading datetime.utcnow() would return, in seconds
\* fkEnforced   whether the engine enforces the declared foreign keys
\* users .. logs  the committed tables, key |-> row (columns the operations use)
\* nextId       the next surrogate key of each table
\* pc, tx       position of a running create_workout_session and the rows
\*              its Session holds uncommitted
\* last         the most recent create_workout_session call and its outcome
\* ops          number of operations so far
VARIABLES clock, fkEnforced, users, workoutTypes, exercises, sessions, logs,
          nextId, pc, tx, last, ops

vars == <<clock, fkEnforced, users, workoutTypes, exercises, sessions, logs,
          nextId, pc, tx, last, ops>>

\* ------------------------------------------------------------ table helpers
EmptyTable == [k \in {} |-> 0]
Put(t, k, r) == [x \in (DOMAIN t) \cup {k} |-> IF x = k THEN r ELSE t[x]]
Remove(t, k) == [x \in (DOMAIN t) \ {k} |-> t[x]]

Range(q) == {q[j] : j \in DOMAIN q}

Min(a, b) == IF a <= b THEN a ELSE b

\* ------------------------------------------------------------ BaseModel
\* created_timestamp and last_edited_timestamp are two successive calls of
\* the default factory datetime.utcnow, in field order.
BaseStamps(t1, t2) == [created_timestamp |-> t1, last_edited_timestamp |-> t2]
\* Variant: onupdate attached to the wrong timestamp column.
OnUpdateTouchesCreated(row, now) == [row EXCEPT !.created_timestamp = now]

\* Column(onupdate=datetime.utcnow): an UPDATE of the row sets
\* last_edited_timestamp to the clock reading and leaves the rest alone.
OnUpdate(row, now) == [row EXCEPT !.last_edited_timestamp = now]

\* ------------------------------------------- create_workout_session, pure
\* session.query(Exercise).limit(3).all(): a list of at most three distinct
\* rows; without an ORDER BY which rows come back, and in which order, is the
\* engine's choice.
LimitResults(tbl) ==
    LET n == Min(QueryLimit, Cardinality(DOMAIN tbl))
    IN {q \in [1..n -> DOMAIN tbl] : \A a, b \in 1..n : a < b => q[a] # q[b]}
\* Variant: off-by-one in the last-set test.
RepsLastSetMissed(set_num) == IF set_num <= LastSet THEN FullReps ELSE LastSetReps

\* repetitions=10 if set_num < 3 else 8
Reps(set_num) == IF set_num < LastSet THEN FullReps ELSE LastSetReps
\* Variant: one heavy group left out of the list.
WeightWithoutBack(muscle) ==
    IF muscle \in (HeavyGroups \ {"Back"}) THEN HeavyWeight ELSE LightWeight

\* weight=50.0 if exercise.primary_muscle_group in ["Chest","Back","Legs"] else 25.0
Weight(muscle) == IF muscle \in HeavyGroups THEN HeavyWeight ELSE LightWeight

\* int(x / 60): truncation toward zero
TruncDiv(a, b) == IF a >= 0 THEN a \div b ELSE -((-a) \div b)
\* Variant: round(...) instead of int(...).
TotalDurationRounded(start, end) ==
    TruncDiv(2 * (end - start) + SecondsPerMinute, 2 * SecondsPerMinute)

\* total_duration = int(delta.total_seconds() / 60)
TotalDuration(start, end) == TruncDiv(end - start, SecondsPerMinute)

NewExerciseLog(sid, eid, set_num, muscle, t1, t2) ==
    [session_id |-> sid, exercise_id |-> eid, set_number |-> set_num,
     repetitions |-> Reps(set_num), weight |-> Weight(muscle),
     rest_time |-> RestTime, difficulty_level |-> "Medium",
     created_timestamp |-> t1, last_edited_timestamp |-> t2]

NewWorkoutSession(uid, start, t1, t2) ==
    [user_id |-> uid, start_time |-> Some(start), end_time |-> NULL,
     total_duration |-> NULL,
     created_timestamp |-> t1, last_edited_timestamp |-> t2]

NoTx == [sid |-> 0, row |-> NULL, exs |-> <<>>, i |-> 1, s |-> 1, staged |-> <<>>]
NoCall == [outcome |-> "none", user_id |-> 0, sid |-> 0, exs |-> {}, staged |-> 0,
           before |-> [sessions |-> <<>>, logs |-> <<>>]]

\* The clock may advance by d between two readings of one step.
Drifts == {d \in {0, TickSeconds} : clock + d <= MaxClock}

\* ------------------------------------------------------------------ clock
\* Time passes between two steps.
Tick ==
    /\ clock + TickSeconds <= MaxClock
    /\ clock' = clock + TickSeconds
    /\ UNCHANGED <<fkEnforced, users, workoutTypes, exercises, sessions, logs,
                   nextId, pc, tx, last, ops>>

\* The rows a commit writes: the session row, completed and touched by the
\* UPDATE (onupdate), and the staged logs under fresh keys.
Completed(row, end, now) ==
    OnUpdate([row EXCEPT !.end_time = Some(end),
                         !.total_duration = Some(TotalDuration(Val(row.start_time), end))],
             now)

WithStaged(tbl, staged, first) ==
    [k \in (DOMAIN tbl) \cup {first + j - 1 : j \in 1..Len(staged)} |->
        IF k \in DOMAIN tbl THEN tbl[k] ELSE staged[k - first + 1]]

\* ------------------------------------------- create_workout_session, steps
\* What the last call was given and how it ended (history).
Snapshot == [sessions |-> sessions, logs |-> logs]
\* Variant: the empty-result guard is missing, an empty session is committed.
CallNoExercisesPersists(uid) ==
    /\ pc = "idle"
    /\ ops < MaxOps
    /\ ops' = ops + 1
    /\ DOMAIN exercises = {}
    /\ nextId.session <= MaxCalls
    /\ sessions' = Put(sessions, nextId.session,
                       Completed(NewWorkoutSession(uid, clock, clock, clock), clock, clock))
    /\ nextId' = [nextId EXCEPT !.session = @ + 1]
    /\ last' = [outcome |-> "no_exercises", user_id |-> uid, sid |-> nextId.session,
                exs |-> {}, staged |-> 0, before |-> Snapshot]
    /\ UNCHANGED <<clock, fkEnforced, users, workoutTypes, exercises, logs, pc, tx>>

\* if not exercises: print(...); return
CallNoExercises(uid) ==
    /\ pc = "idle"
    /\ DOMAIN exercises = {}
    /\ last' = [outcome |-> "no_exercises", user_id |-> uid, sid |-> 0,
                exs |-> {}, staged |-> 0, before |-> Snapshot]
    /\ UNCHANGED <<clock, fkEnforced, users, workoutTypes, exercises, sessions,
                   logs, nextId, pc, tx, ops>>

\* The INSERT of the flush is rejected when the engine enforces the foreign
\* key workoutsession.user_id -> user.user_id and the user does not exist.
FlushRejected(uid) == fkEnforced /\ uid \notin DOMAIN users

\* query, construct the WorkoutSession, session.add, session.flush
CallBegin(uid) ==
    /\ pc = "idle"
    /\ DOMAIN exercises # {}
    /\ nextId.session <= MaxCalls
    /\ ops < MaxOps
    /\ ops' = ops + 1
    /\ ~FlushRejected(uid)
    /\ \E rows \in LimitResults(exercises), d0 \in Drifts :
       \E d1 \in {d \in {0, TickSeconds} : clock + d0 + d <= MaxClock} :
          \* start_time is read first (line 150), then the constructor reads
          \* created_timestamp and last_edited_timestamp
          /\ clock' = clock + d0 + d1
          /\ tx' = [sid |-> nextId.session,
                    row |-> Some(NewWorkoutSession(uid, clock, clock + d0,
                                                   clock + d0 + d1)),
                    exs |-> rows, i |-> 1, s |-> 1, staged |-> <<>>]
          /\ last' = [outcome |-> "running", user_id |-> uid,
                      sid |-> nextId.session, exs |-> Range(rows),
                      staged |-> 0, before |-> Snapshot]
    /\ nextId' = [nextId EXCEPT !.session = @ + 1]
    /\ pc' = "loop"
    /\ UNCHANGED <<fkEnforced, users, workoutTypes, exercises, sessions, logs>>

\* The flush raises (a rejected INSERT or any other engine error); leaving the
\* with-block closes the Session, which rolls the transaction back.
CallFlushFails(uid) ==
    /\ pc = "idle"
    /\ DOMAIN exercises # {}
    /\ last' = [outcome |-> "raised", user_id |-> uid, sid |-> 0,
                exs |-> {}, staged |-> 0, before |-> Snapshot]
    /\ UNCHANGED <<clock, fkEnforced, users, workoutTypes, exercises, sessions,
                   logs, nextId, pc, tx, ops>>

\* One iteration of the inner loop: construct an ExerciseLog, session.add.
AddLog ==
    /\ pc = "loop"
    /\ tx.i <= Len(tx.exs)
    /\ \E d \in Drifts :
          LET eid == tx.exs[tx.i]
              log == NewExerciseLog(tx.sid, eid, tx.s,
                                    exercises[eid].primary_muscle_group,
                                    clock, clock + d)
          IN /\ clock' = clock + d
             /\ tx' = [tx EXCEPT !.staged = Append(@, log),
                                 !.s = IF tx.s < SetsPerExercise THEN tx.s + 1 ELSE 1,
                                 !.i = IF tx.s < SetsPerExercise THEN tx.i ELSE tx.i + 1]
    /\ UNCHANGED <<fkEnforced, users, workoutTypes, exercises, sessions, logs,
                   nextId, pc, last, ops>>

\* end_time, total_duration, session.commit()
CallCommit ==
    /\ pc = "loop"
    /\ tx.i > Len(tx.exs)
    /\ \E d \in Drifts :
          /\ clock' = clock + d
          /\ sessions' = Put(sessions, tx.sid, Completed(Val(tx.row), clock, clock + d))
    /\ logs' = WithStaged(logs, tx.staged, nextId.log)
    /\ nextId' = [nextId EXCEPT !.log = @ + Len(tx.staged)]
    /\ pc' = "idle"
    /\ tx' = NoTx
    /\ last' = [last EXCEPT !.outcome = "committed", !.staged = Len(tx.staged)]
    /\ UNCHANGED <<fkEnforced, users, workoutTypes, exercises, ops>>
\* Variant: the flushed INSERT of the session survives the failure.
CallRaiseKeepsFlushed ==
    /\ pc = "loop"
    /\ pc' = "idle"
    /\ sessions' = Put(sessions, tx.sid, Val(tx.row))
    /\ tx' = NoTx
    /\ last' = [last EXCEPT !.outcome = "raised", !.staged = Len(tx.staged)]
    /\ UNCHANGED <<clock, fkEnforced, users, workoutTypes, exercises, logs, nextId, ops>>

\* An exception while a log is added or at commit: the with-block closes the
\* Session and the pending transaction is rolled back.
CallRaise ==
    /\ pc = "loop"
    /\ pc' = "idle"
    /\ tx' = NoTx
    /\ last' = [last EXCEPT !.outcome = "raised", !.staged = Len(tx.staged)]
    /\ UNCHANGED <<clock, fkEnforced, users, workoutTypes, exercises, sessions,
                   logs, nextId, ops>>

\* A reference given to an operation: the key of an existing row, or the
\* next key, which no row has.
Refs(tbl, next) == (DOMAIN tbl) \cup {next}

UserIds == Refs(users, nextId.user)

CreateWorkoutSessionStep ==
    \/ \E uid \in UserIds : CallNoExercises(uid)
    \/ \E uid \in UserIds : CallBegin(uid)
    \/ \E uid \in UserIds : CallFlushFails(uid)
    \/ AddLog
    \/ CallCommit
    \/ CallRaise

\* ------------------------------------------------- the composite operation
\* on a populated store
CatalogueGroups == <<"Back", NoMuscle, "Biceps", "Legs", "Chest">>
CatalogueMuscle(k, r) == CatalogueGroups[((k - 1 + r) % Len(CatalogueGroups)) + 1]

ExerciseRow(wt, muscle, t1, t2) ==
    [workout_type_id |-> wt, primary_muscle_group |-> muscle,
     created_timestamp |-> t1, last_edited_timestamp |-> t2]

InitTxn ==
    /\ clock = 0
    /\ fkEnforced \in BOOLEAN
    /\ users = [k \in {1} |-> BaseStamps(0, 0)]
    /\ workoutTypes = [k \in {1} |-> BaseStamps(0, 0)]
    /\ \E n \in 0..MaxExercises, r \in 0..(Len(CatalogueGroups) - 1) :
          \* a single exercise of any group, or the first n of the catalogue
          /\ n = 1 \/ r = 0
          /\ exercises = [k \in 1..n |-> ExerciseRow(Some(1), CatalogueMuscle(k, r), 0, 0)]
    /\ sessions = EmptyTable
    /\ logs = EmptyTable
    /\ nextId = [user |-> 2, wtype |-> 2, exercise |-> MaxExercises + 1,
                 session |-> 1, log |-> 1]
    /\ pc = "idle"
    /\ tx = NoTx
    /\ last = NoCall
    /\ ops = 0

NextTxn == Tick \/ CreateWorkoutSessionStep

SpecTxn == InitTxn /\ [][NextTxn]_vars

\* --------------------------------------------------- unit-of-work operations
\* Every operation below is one Session: add / change / delete, then commit,
\* as in query_workout_type_table.  A rejected statement leaves the store as
\* it was.

\* A FOREIGN KEY column accepts NULL (when the column is nullable) or the key
\* of an existing parent row; an engine that does not enforce foreign keys
\* accepts anything.
FkAccepts(ref, parent) == ~fkEnforced \/ ref \in DOMAIN parent

\* No operation runs while a composite call is in progress; MaxOps bounds
\* the number of operations of a behaviour.
Idle == pc = "idle" /\ ops < MaxOps

CreateUser ==
    /\ Idle
    /\ last' = NoCall
    /\ ops' = ops + 1
    /\ nextId.user <= MaxRows
    /\ \E d \in Drifts :
          /\ clock' = clock + d
          /\ users' = Put(users, nextId.user, BaseStamps(clock, clock + d))
    /\ nextId' = [nextId EXCEPT !.user = @ + 1]
    /\ UNCHANGED <<fkEnforced, workoutTypes, exercises, sessions, logs, pc, tx>>

\* query_workout_type_table
CreateWorkoutType ==
    /\ Idle
    /\ last' = NoCall
    /\ ops' = ops + 1
    /\ nextId.wtype <= MaxRows
    /\ \E d \in Drifts :
          /\ clock' = clock + d
          /\ workoutTypes' = Put(workoutTypes, nextId.wtype, BaseStamps(clock, clock + d))
    /\ nextId' = [nextId EXCEPT !.wtype = @ + 1]
    /\ UNCHANGED <<fkEnforced, users, exercises, sessions, logs, pc, tx>>

\* Exercise.workout_type_id is Optional[int]: a nullable foreign key.
ExerciseAccepted(wt) == IF wt = NULL THEN TRUE ELSE FkAccepts(Val(wt), workoutTypes)

CreateExercise(wt, muscle) ==
    /\ Idle
    /\ last' = NoCall
    /\ ops' = ops + 1
    /\ nextId.exercise <= MaxRows
    /\ ExerciseAccepted(wt)
    /\ \E d \in Drifts :
          /\ clock' = clock + d
          /\ exercises' = Put(exercises, nextId.exercise,
                              ExerciseRow(wt, muscle, clock, clock + d))
    /\ nextId' = [nextId EXCEPT !.exercise = @ + 1]
    /\ UNCHANGED <<fkEnforced, users, workoutTypes, sessions, logs, pc, tx>>

\* WorkoutSession.user_id is int: NOT NULL foreign key.
SessionAccepted(uid) == FkAccepts(uid, users)

CreateSession(uid) ==
    /\ Idle
    /\ last' = NoCall
    /\ ops' = ops + 1
    /\ nextId.session <= MaxRows
    /\ SessionAccepted(uid)
    /\ \E d \in Drifts :
          /\ clock' = clock + d
          /\ sessions' = Put(sessions, nextId.session,
                             [user_id |-> uid, start_time |-> NULL, end_time |-> NULL,
                              total_duration |-> NULL,
                              created_timestamp |-> clock,
                              last_edited_timestamp |-> clock + d])
    /\ nextId' = [nextId EXCEPT !.session = @ + 1]
    /\ UNCHANGED <<fkEnforced, users, workoutTypes, exercises, logs, pc, tx>>

\* ExerciseLog.session_id and exercise_id are int: NOT NULL foreign keys.
\* set_number is a plain Optional[int] column: the table carries no CHECK.
LogAccepted(sid, eid, set_num) ==
    /\ FkAccepts(sid, sessions)
    /\ FkAccepts(eid, exercises)

PlainLog(sid, eid, set_num, t1, t2) ==
    [session_id |-> sid, exercise_id |-> eid, set_number |-> set_num,
     repetitions |-> 0, weight |-> 0, rest_time |-> 0, difficulty_level |-> "None",
     created_timestamp |-> t1, last_edited_timestamp |-> t2]

CreateLog(sid, eid, set_num) ==
    /\ Idle
    /\ last' = NoCall
    /\ ops' = ops + 1
    /\ nextId.log <= MaxRows
    /\ LogAccepted(sid, eid, set_num)
    /\ \E d \in Drifts :
          /\ clock' = clock + d
          /\ logs' = Put(logs, nextId.log, PlainLog(sid, eid, set_num, clock, clock + d))
    /\ nextId' = [nextId EXCEPT !.log = @ + 1]
    /\ UNCHANGED <<fkEnforced, users, workoutTypes, exercises, sessions, pc, tx>>

\* An UPDATE of a row: the changed columns, plus onupdate.
UpdateUser(k) ==
    /\ Idle
    /\ last' = NoCall
    /\ ops' = ops + 1
    /\ k \in DOMAIN users
    /\ users' = [users EXCEPT ![k] = OnUpdate(@, clock)]
    /\ UNCHANGED <<clock, fkEnforced, workoutTypes, exercises, sessions, logs,
                   nextId, pc, tx>>

UpdateWorkoutType(k) ==
    /\ Idle
    /\ last' = NoCall
    /\ ops' = ops + 1
    /\ k \in DOMAIN workoutTypes
    /\ workoutTypes' = [workoutTypes EXCEPT ![k] = OnUpdate(@, clock)]
    /\ UNCHANGED <<clock, fkEnforced, users, exercises, sessions, logs,
                   nextId, pc, tx>>

UpdateExercise(k, wt) ==
    /\ Idle
    /\ last' = NoCall
    /\ ops' = ops + 1
    /\ k \in DOMAIN exercises
    /\ wt # exercises[k].workout_type_id
    /\ ExerciseAccepted(wt)
    /\ exercises' = [exercises EXCEPT ![k] = OnUpdate([@ EXCEPT !.workout_type_id = wt], clock)]
    /\ UNCHANGED <<clock, fkEnforced, users, workoutTypes, sessions, logs,
                   nextId, pc, tx>>

UpdateSession(k, uid) ==
    /\ Idle
    /\ last' = NoCall
    /\ ops' = ops + 1
    /\ k \in DOMAIN sessions
    /\ uid # sessions[k].user_id
    /\ SessionAccepted(uid)
    /\ sessions' = [sessions EXCEPT ![k] = OnUpdate([@ EXCEPT !.user_id = uid], clock)]
    /\ UNCHANGED <<clock, fkEnforced, users, workoutTypes, exercises, logs,
                   nextId, pc, tx>>

UpdateLog(k, sid, set_num) ==
    /\ Idle
    /\ last' = NoCall
    /\ ops' = ops + 1
    /\ k \in DOMAIN logs
    /\ <<sid, set_num>> # <<logs[k].session_id, logs[k].set_number>>
    /\ LogAccepted(sid, logs[k].exercise_id, set_num)
    /\ logs' = [logs EXCEPT ![k] = OnUpdate([@ EXCEPT !.session_id = sid,
                                                      !.set_number = set_num], clock)]
    /\ UNCHANGED <<clock, fkEnforced, users, workoutTypes, exercises, sessions,
                   nextId, pc, tx>>

\* Session.delete of a parent row.  The relationships are declared without a
\* delete cascade, so the unit of work first detaches the children: it sets
\* their foreign key to NULL.  On a NOT NULL column that UPDATE is rejected
\* and the delete with it.
Children(tbl, col, k) == {c \in DOMAIN tbl : tbl[c][col] = k}

DeleteUser(k) ==
    /\ Idle
    /\ last' = NoCall
    /\ ops' = ops + 1
    /\ k \in DOMAIN users
    /\ Children(sessions, "user_id", k) = {}
    /\ users' = Remove(users, k)
    /\ UNCHANGED <<clock, fkEnforced, workoutTypes, exercises, sessions, logs,
                   nextId, pc, tx>>

\* Exercise.workout_type_id is nullable: the children are detached and the
\* WorkoutType row goes.
Detached(tbl, k, now) ==
    [c \in DOMAIN tbl |->
        IF tbl[c].workout_type_id = Some(k)
        THEN OnUpdate([tbl[c] EXCEPT !.workout_type_id = NULL], now)
        ELSE tbl[c]]

DeleteWorkoutType(k) ==
    /\ Idle
    /\ last' = NoCall
    /\ ops' = ops + 1
    /\ k \in DOMAIN workoutTypes
    /\ exercises' = Detached(exercises, k, clock)
    /\ workoutTypes' = Remove(workoutTypes, k)
    /\ UNCHANGED <<clock, fkEnforced, users, sessions, logs, nextId, pc, tx>>

DeleteExercise(k) ==
    /\ Idle
    /\ last' = NoCall
    /\ ops' = ops + 1
    /\ k \in DOMAIN exercises
    /\ Children(logs, "exercise_id", k) = {}
    /\ exercises' = Remove(exercises, k)
    /\ UNCHANGED <<clock, fkEnforced, users, workoutTypes, sessions, logs,
                   nextId, pc, tx>>

DeleteSession(k) ==
    /\ Idle
    /\ last' = NoCall
    /\ ops' = ops + 1
    /\ k \in DOMAIN sessions
    /\ Children(logs, "session_id", k) = {}
    /\ sessions' = Remove(sessions, k)
    /\ UNCHANGED <<clock, fkEnforced, users, workoutTypes, exercises, logs,
                   nextId, pc, tx>>

DeleteLog(k) ==
    /\ Idle
    /\ last' = NoCall
    /\ ops' = ops + 1
    /\ k \in DOMAIN logs
    /\ logs' = Remove(logs, k)
    /\ UNCHANGED <<clock, fkEnforced, users, workoutTypes, exercises, sessions,
                   nextId, pc, tx>>

\* ------------------------------------------------------------ the program
TypeRefs == {NULL} \cup {Some(k) : k \in Refs(workoutTypes, nextId.wtype)}
SetNumbers == {0, 1}
InputMuscles == {"Legs", "Biceps"}

Init ==
    /\ clock = 0
    /\ fkEnforced \in BOOLEAN
    /\ users = EmptyTable
    /\ workoutTypes = EmptyTable
    /\ exercises = EmptyTable
    /\ sessions = EmptyTable
    /\ logs = EmptyTable
    /\ nextId = [user |-> 1, wtype |-> 1, exercise |-> 1, session |-> 1, log |-> 1]
    /\ pc = "idle"
    /\ tx = NoTx
    /\ last = NoCall
    /\ ops = 0

Create ==
    \/ CreateUser
    \/ CreateWorkoutType
    \/ \E wt \in TypeRefs, m \in InputMuscles : CreateExercise(wt, m)
    \/ \E uid \in UserIds : CreateSession(uid)
    \/ \E sid \in Refs(sessions, nextId.session), eid \in Refs(exercises, nextId.exercise),
          n \in SetNumbers : CreateLog(sid, eid, n)

Update ==
    \/ \E k \in DOMAIN users : UpdateUser(k)
    \/ \E k \in DOMAIN workoutTypes : UpdateWorkoutType(k)
    \/ \E k \in DOMAIN exercises, wt \in TypeRefs : UpdateExercise(k, wt)
    \/ \E k \in DOMAIN sessions, uid \in UserIds : UpdateSession(k, uid)
    \/ \E k \in DOMAIN logs, sid \in Refs(sessions, nextId.session), n \in SetNumbers :
          UpdateLog(k, sid, n)

Delete ==
    \/ \E k \in DOMAIN users : DeleteUser(k)
    \/ \E k \in DOMAIN workoutTypes : DeleteWorkoutType(k)
    \/ \E k \in DOMAIN exercises : DeleteExercise(k)
    \/ \E k \in DOMAIN sessions : DeleteSession(k)
    \/ \E k \in DOMAIN logs : DeleteLog(k)

Next == Tick \/ Create \/ Update \/ Delete \/ CreateWorkoutSessionStep

Spec == Init /\ [][Next]_vars

\* ================================================================ properties
SessionLogs(sid) == {k \in DOMAIN logs : logs[k].session_id = sid}
Ended == last.outcome \in {"committed", "raised", "no_exercises"}
StoreAsBefore == sessions = last.before.sessions /\ logs = last.before.logs

\* C1: create_workout_session is atomic.  Once a session row has been staged,
\* the persisted store holds the new session together with all of its logs
\* (one per chosen exercise and set) or neither the session nor any log of
\* it, in every state; and a call that raised left the store as it found it.
C1_Atomic ==
    last.sid # 0 =>
      /\ \/ /\ last.sid \in DOMAIN sessions
            /\ Cardinality(SessionLogs(last.sid)) = 3 * Cardinality(last.exs)
         \/ /\ last.sid \notin DOMAIN sessions
            /\ SessionLogs(last.sid) = {}
      /\ last.outcome \in {"running", "raised"} => StoreAsBefore
      /\ last.outcome = "committed" => last.sid \in DOMAIN sessions

\* A call failed after the session row and at least one log were staged.
C1_Witness == last.outcome = "raised" /\ last.sid # 0 /\ last.staged > 0

\* C2: a call that finds no exercise leaves the WorkoutSession and
\* ExerciseLog tables exactly as they were, and no session without logs is
\* ever persisted by the operation.
C2_NoExercisesNoRows ==
    /\ last.outcome = "no_exercises" => StoreAsBefore
    /\ \A k \in DOMAIN sessions : SessionLogs(k) # {}

C2_Witness == last.outcome = "no_exercises" /\ DOMAIN exercises = {}

\* C3 (as claimed): a call whose user_id is not the key of a User fails and
\* persists nothing, so no session with a dangling user_id exists.
C3_UnknownUserRejected ==
    /\ (Ended /\ last.user_id \notin DOMAIN users) =>
          (last.outcome = "raised" /\ StoreAsBefore)
    /\ \A k \in DOMAIN sessions : sessions[k].user_id \in DOMAIN users

\* C4 (as claimed): the operation is given a non-empty list E of distinct
\* exercises and a number n >= 1 of sets; whatever E and n are, a committed
\* call created exactly |E| * n logs, one per exercise of E and set 1..n, with
\* 8 repetitions on set n and 10 before.
C4_AnyExercisesAnySets ==
    last.outcome = "committed" =>
      LET new == (DOMAIN logs) \ (DOMAIN last.before.logs)
      IN \A E \in (SUBSET DOMAIN exercises) \ {{}}, n \in 1..SetsPerExercise :
            /\ Cardinality(new) = Cardinality(E) * n
            /\ \A k \in new : /\ logs[k].exercise_id \in E
                              /\ logs[k].set_number \in 1..n
                              /\ logs[k].repetitions =
                                    IF logs[k].set_number = n THEN 8 ELSE 10

\* C4 (amended): the function takes neither an exercise list nor a number of
\* sets.  A committed call used E = the rows its LIMIT 3 query returned, 1 to
\* 3 distinct exercises, and 3 sets: it created exactly 3 * |E| logs, all of
\* the new session, exactly one per exercise of E and set 1..3, with 8
\* repetitions on set 3 and 10 on sets 1 and 2; 9 rows for 3 exercises.
C4_LogsPerExerciseAndSet ==
    last.outcome = "committed" =>
      LET new == (DOMAIN logs) \ (DOMAIN last.before.logs)
      IN /\ last.exs # {}
         /\ last.exs \subseteq DOMAIN exercises
         /\ Cardinality(last.exs) = IF Cardinality(DOMAIN exercises) < 3
                                    THEN Cardinality(DOMAIN exercises) ELSE 3
         /\ new = SessionLogs(last.sid)
         /\ Cardinality(new) = Cardinality(last.exs) * 3
         /\ Cardinality(last.exs) = 3 => Cardinality(new) = 9
         /\ \A k \in new : /\ logs[k].exercise_id \in last.exs
                           /\ logs[k].set_number \in 1..3
         /\ \A e \in last.exs, n \in 1..3 :
               LET hit == {k \in new : logs[k].exercise_id = e /\ logs[k].set_number = n}
               IN /\ Cardinality(hit) = 1
                  /\ \A k \in hit : logs[k].repetitions = IF n = 3 THEN 8 ELSE 10

C4_Witness ==
    /\ last.outcome = "committed"
    /\ Cardinality(last.exs) = 3
    /\ Cardinality(SessionLogs(last.sid)) = 9
    /\ Cardinality(DOMAIN exercises) > 3

\* C5: every log of a committed call weighs 50 when the exercise's
\* primary_muscle_group is Chest, Back or Legs and 25 otherwise (unset
\* included), rests 60 and is of difficulty "Medium".
C5_WeightByMuscleGroup ==
    last.outcome = "committed" =>
      \A k \in SessionLogs(last.sid) :
         LET g == exercises[logs[k].exercise_id].primary_muscle_group
         IN /\ logs[k].weight = IF g \in {"Chest", "Back", "Legs"} THEN 50 ELSE 25
            /\ logs[k].rest_time = 60
            /\ logs[k].difficulty_level = "Medium"

C5_Witness ==
    /\ last.outcome = "committed"
    /\ \E a, b, c \in SessionLogs(last.sid) :
          /\ exercises[logs[a].exercise_id].primary_muscle_group = "Back"
          /\ logs[a].weight = 50
          /\ exercises[logs[b].exercise_id].primary_muscle_group = NoMuscle
          /\ logs[b].weight = 25
          /\ exercises[logs[c].exercise_id].primary_muscle_group = "Biceps"
          /\ logs[c].weight = 25

\* C6: on the session of a committed call end_time >= start_time and
\* total_duration is the whole number of minutes between the two, never
\* negative and 0 below 60 seconds; every log was created between start_time
\* and end_time.
C6_DurationWholeMinutes ==
    last.outcome = "committed" =>
      LET row == sessions[last.sid]
          start == Val(row.start_time)
          end == Val(row.end_time)
          dur == Val(row.total_duration)
      IN /\ row.end_time # NULL /\ row.total_duration # NULL
         /\ end >= start
         /\ dur >= 0
         /\ dur * 60 <= end - start
         /\ end - start < (dur + 1) * 60
         /\ (end - start < 60) => dur = 0
         /\ \A k \in SessionLogs(last.sid) :
               /\ start <= logs[k].created_timestamp
               /\ logs[k].last_edited_timestamp <= end

\* A session that took more than a minute, and not a whole number of minutes.
C6_Witness ==
    /\ last.outcome = "committed"
    /\ Val(sessions[last.sid].total_duration) = 1
    /\ Val(sessions[last.sid].end_time) - Val(sessions[last.sid].start_time) > 60

\* C7 (as claimed): every persisted ExerciseLog refers to an existing
\* WorkoutSession and an existing Exercise.
C7_LogReferencesExist ==
    \A k \in DOMAIN logs :
       /\ logs[k].session_id \in DOMAIN sessions
       /\ logs[k].exercise_id \in DOMAIN exercises

\* C8 (as claimed): every persisted ExerciseLog has set_number >= 1.
C8_SetNumberPositive == \A k \in DOMAIN logs : logs[k].set_number >= 1

\* C9 (as claimed): when a WorkoutType that Exercise rows point to is
\* deleted, those rows go with it (cascade); otherwise the delete is refused.
\* No step removes a WorkoutType and keeps an Exercise that pointed to it.
C9_DeleteTypeRestrictsOrCascades ==
    [][\A k \in (DOMAIN workoutTypes) \ (DOMAIN workoutTypes') :
          \A e \in DOMAIN exercises :
             exercises[e].workout_type_id = Some(k) => e \notin DOMAIN exercises']_vars

\* C10: in all five tables created_timestamp <= last_edited_timestamp; a step
\* never changes the created_timestamp of a row it keeps and never moves its
\* last_edited_timestamp backwards.
Tables == <<users, workoutTypes, exercises, sessions, logs>>
TablesNext == <<users', workoutTypes', exercises', sessions', logs'>>

StampsOrdered ==
    \A t \in 1..5 : \A k \in DOMAIN Tables[t] :
       Tables[t][k].created_timestamp <= Tables[t][k].last_edited_timestamp

StampsStep ==
    \A t \in 1..5 : \A k \in (DOMAIN Tables[t]) \cap (DOMAIN TablesNext[t]) :
       /\ TablesNext[t][k].created_timestamp = Tables[t][k].created_timestamp
       /\ TablesNext[t][k].last_edited_timestamp >= Tables[t][k].last_edited_timestamp
       /\ TablesNext[t][k] # Tables[t][k] => TablesNext[t][k].last_edited_timestamp = clock'

C10_Timestamps == [][StampsOrdered /\ StampsOrdered' /\ StampsStep]_vars

\* Rows updated after their creation: the session a call completed, and an
\* exercise row edited later than it was created.
C10_Witness ==
    /\ \E k \in DOMAIN sessions :
          /\ sessions[k].end_time # NULL
          /\ sessions[k].last_edited_timestamp > sessions[k].created_timestamp
    /\ \E k \in DOMAIN exercises :
          exercises[k].last_edited_timestamp > exercises[k].created_timestamp

====
